---- MODULE Spec2Model ----
(***************************************************************************)
(* clippy-clippy: one invocation of main (src/main.rs).  The clipboard     *)
(* image is read, checked for emptiness, wrapped in an image buffer,       *)
(* PNG/Base64 encoded, posted to a chat-completion endpoint, and the       *)
(* response is interpreted by call_openai_api.                             *)
(*                                                                         *)
(* A response body is text.  Text that is not JSON is a value tagged       *)
(* "text"; text that is JSON is the JSON value it denotes (tags "null",    *)
(* "str", "num", "arr", "obj").  Deserialisation into ApiResponse is the   *)
(* serde-derived visitor, translated field by field from the struct        *)
(* definitions.                                                            *)
(***************************************************************************)
EXTENDS Integers, Sequences, FiniteSets, TLC

(* ------------------------------ bounds --------------------------------- *)

\* Largest clipboard image width and height drawn.
MaxDim == 2

\* Largest number of bytes a drawn buffer has beyond width * height * 4.
MaxExtra == 1

\* Largest number of entries in a drawn "choices" array.
MaxChoices == 2

(* --------------------------- JSON documents ---------------------------- *)

JNull == [t |-> "null"]

JStr(s) == [t |-> "str", s |-> s]

JNum(n) == [t |-> "num", n |-> n]

JArr(a) == [t |-> "arr", a |-> a]

JObj(f) == [t |-> "obj", f |-> f]

\* A body that is not a JSON document at all.
NonJson(s) == [t |-> "text", s |-> s]

\* Marker for a struct field that the document does not supply.
Missing == [t |-> "missing"]

\* An object with no members, as a function with empty domain.
NoFields == [k \in {} |-> JNull]

(* ----------------------- serde-derived visitors ------------------------ *)

\* A struct is read from a JSON object (visit_map) or a JSON array
\* (visit_seq); anything else is a type error.
IsStructShape(v) == v.t \in {"obj", "arr"}

\* The value supplied for the field called name, declared at position idx.
\* Unknown members of an object are ignored.
Field(v, name, idx) ==
    IF v.t = "obj"
    THEN IF name \in DOMAIN v.f THEN v.f[name] ELSE Missing
    ELSE IF idx <= Len(v.a) THEN v.a[idx] ELSE Missing

\* serde_json rejects an array with more elements than the struct has fields.
FitsStruct(v, nfields) == v.t = "obj" \/ (v.t = "arr" /\ Len(v.a) <= nfields)

None == [some |-> FALSE]

Some(x) == [some |-> TRUE, val |-> x]

Err == [ok |-> FALSE]

Ok(x) == [ok |-> TRUE, val |-> x]

\* A field of type String: the value must be a JSON string.
DeString(v) == IF v.t = "str" THEN Ok(v.s) ELSE Err

\* A field of type Option<String>.  In an object an absent member is None;
\* in an array an absent element is an invalid-length error unless the
\* field has #[serde(default)].
DeOptString(v, inMap) ==
    IF v.t = "missing" THEN (IF inMap THEN Ok(None) ELSE Err)
    ELSE IF v.t = "null" THEN Ok(None)
    ELSE IF v.t = "str" THEN Ok(Some(v.s))
    ELSE Err

\* A field of type u32: a non-negative JSON integer.  (The upper limit
\* 2^32 - 1 lies beyond every number the drawn documents contain.)
DeU32(v) == IF v.t = "num" /\ v.n >= 0 THEN Ok(v.n) ELSE Err

\* struct Usage { prompt_tokens, completion_tokens, total_tokens }
DeUsage(v) ==
    IF ~IsStructShape(v) \/ ~FitsStruct(v, 3) THEN Err
    ELSE LET p == DeU32(Field(v, "prompt_tokens", 1))
             c == DeU32(Field(v, "completion_tokens", 2))
             t == DeU32(Field(v, "total_tokens", 3))
         IN IF p.ok /\ c.ok /\ t.ok
            THEN Ok([prompt_tokens |-> p.val, completion_tokens |-> c.val,
                     total_tokens |-> t.val])
            ELSE Err

\* struct ApiError { message: String, #[serde(rename = "type")] error_type }
DeApiError(v) ==
    IF ~IsStructShape(v) \/ ~FitsStruct(v, 2) THEN Err
    ELSE LET m == DeString(Field(v, "message", 1))
             k == DeString(Field(v, "type", 2))
         IN IF m.ok /\ k.ok
            THEN Ok([message |-> m.val, error_type |-> k.val])
            ELSE Err

\* struct ResponseMessage { content: Option<String> }
DeResponseMessage(v) ==
    IF ~IsStructShape(v) \/ ~FitsStruct(v, 1) THEN Err
    ELSE LET c == DeOptString(Field(v, "content", 1), v.t = "obj")
         IN IF c.ok THEN Ok([content |-> c.val]) ELSE Err

\* struct Choice { message: ResponseMessage, finish_reason: Option<String> }
DeChoice(v) ==
    IF ~IsStructShape(v) \/ ~FitsStruct(v, 2) THEN Err
    ELSE LET mv == Field(v, "message", 1)
             m  == IF mv.t = "missing" THEN Err ELSE DeResponseMessage(mv)
             f  == DeOptString(Field(v, "finish_reason", 2), v.t = "obj")
         IN IF m.ok /\ f.ok
            THEN Ok([message |-> m.val, finish_reason |-> f.val])
            ELSE Err

\* Vec<Choice>: a JSON array every element of which is a Choice.
DeChoices(v) ==
    IF v.t # "arr" THEN Err
    ELSE IF \A i \in 1..Len(v.a) : DeChoice(v.a[i]).ok
         THEN Ok([i \in 1..Len(v.a) |-> DeChoice(v.a[i]).val])
         ELSE Err

\* usage: Option<Usage> with #[serde(default)]: absent or null is None.
DeOptUsage(v) ==
    IF v.t \in {"missing", "null"} THEN Ok(None)
    ELSE IF DeUsage(v).ok THEN Ok(Some(DeUsage(v).val)) ELSE Err

\* error: Option<ApiError> with #[serde(default)]: absent or null is None.
DeOptApiError(v) ==
    IF v.t \in {"missing", "null"} THEN Ok(None)
    ELSE IF DeApiError(v).ok THEN Ok(Some(DeApiError(v).val)) ELSE Err

\* struct ApiResponse { choices: Vec<Choice>, usage, error }.  choices has
\* no default: a document without it does not deserialise.
DeApiResponse(v) ==
    IF ~IsStructShape(v) \/ ~FitsStruct(v, 3) THEN Err
    ELSE LET cv == Field(v, "choices", 1)
             c  == IF cv.t = "missing" THEN Err ELSE DeChoices(cv)
             u  == DeOptUsage(Field(v, "usage", 2))
             e  == DeOptApiError(Field(v, "error", 3))
         IN IF c.ok /\ u.ok /\ e.ok
            THEN Ok([choices |-> c.val, usage |-> u.val, error |-> e.val])
            ELSE Err

\* serde_json::from_str::<ApiResponse>(text)
from_str(text) == IF text.t = "text" THEN Err ELSE DeApiResponse(text)

(* ------------------------- call_openai_api ----------------------------- *)

\* StatusCode::is_success
is_success(status) == 200 <= status /\ status <= 299

\* The anyhow errors call_openai_api builds after the body has been read,
\* one constructor per format string.
\* "API request failed with status {}: {} ({})"
ApiErrorWithStatus(status, e) ==
    [kind |-> "ApiError", status |-> status, message |-> e.message,
     error_type |-> e.error_type]

\* "API request failed with status {}. Response body: {}"
HttpError(status, text) == [kind |-> "HttpError", status |-> status, body |-> text]

\* "Failed to parse successful JSON response from API. Body: {}"
MalformedResponse(text) == [kind |-> "MalformedResponse", body |-> text]

\* "API indicated an error despite success status: {} ({})"
ApiErrorOnSuccess(e) ==
    [kind |-> "ApiError", message |-> e.message, error_type |-> e.error_type]

\* "API response did not contain any choices/content."
NoChoices == [kind |-> "NoChoices"]

Fail(e) == [ok |-> FALSE, err |-> e]

\* call_openai_api without the check of lines 296-299: a success status is
\* trusted and the embedded error record is not looked at.
InterpretResponse_TrustsSuccessStatus(status, text) ==
    LET parsed == from_str(text) IN
    IF ~is_success(status)
    THEN IF parsed.ok /\ parsed.val.error.some
         THEN Fail(ApiErrorWithStatus(status, parsed.val.error.val))
         ELSE Fail(HttpError(status, text))
    ELSE IF ~parsed.ok THEN Fail(MalformedResponse(text))
    ELSE IF Len(parsed.val.choices) = 0 THEN Fail(NoChoices)
    ELSE LET content == parsed.val.choices[1].message.content
         IN IF content.some THEN Ok(content.val) ELSE Ok("")

\* call_openai_api where a non-success status returns early only for a body
\* that carries an error record or does not parse; a parsed body without
\* one goes on to the choices.
InterpretResponse_StatusOnlyWithError(status, text) ==
    LET parsed == from_str(text) IN
    IF ~is_success(status) /\ parsed.ok /\ parsed.val.error.some
    THEN Fail(ApiErrorWithStatus(status, parsed.val.error.val))
    ELSE IF ~is_success(status) /\ ~parsed.ok THEN Fail(HttpError(status, text))
    ELSE IF ~parsed.ok THEN Fail(MalformedResponse(text))
    ELSE IF parsed.val.error.some THEN Fail(ApiErrorOnSuccess(parsed.val.error.val))
    ELSE IF Len(parsed.val.choices) = 0 THEN Fail(NoChoices)
    ELSE LET content == parsed.val.choices[1].message.content
         IN IF content.some THEN Ok(content.val) ELSE Ok("")

\* call_openai_api where a success body that does not parse counts as an
\* empty answer (unwrap_or_default in place of line 293's `?`).
InterpretResponse_EmptyOnParseFailure(status, text) ==
    LET parsed == from_str(text) IN
    IF ~is_success(status)
    THEN IF parsed.ok /\ parsed.val.error.some
         THEN Fail(ApiErrorWithStatus(status, parsed.val.error.val))
         ELSE Fail(HttpError(status, text))
    ELSE IF ~parsed.ok THEN Ok("")
    ELSE IF parsed.val.error.some THEN Fail(ApiErrorOnSuccess(parsed.val.error.val))
    ELSE IF Len(parsed.val.choices) = 0 THEN Fail(NoChoices)
    ELSE LET content == parsed.val.choices[1].message.content
         IN IF content.some THEN Ok(content.val) ELSE Ok("")

\* call_openai_api taking the last choice (into_iter().last()) instead of
\* the first.
InterpretResponse_LastChoice(status, text) ==
    LET parsed == from_str(text) IN
    IF ~is_success(status)
    THEN IF parsed.ok /\ parsed.val.error.some
         THEN Fail(ApiErrorWithStatus(status, parsed.val.error.val))
         ELSE Fail(HttpError(status, text))
    ELSE IF ~parsed.ok THEN Fail(MalformedResponse(text))
    ELSE IF parsed.val.error.some THEN Fail(ApiErrorOnSuccess(parsed.val.error.val))
    ELSE IF Len(parsed.val.choices) = 0 THEN Fail(NoChoices)
    ELSE LET content == parsed.val.choices[Len(parsed.val.choices)].message.content
         IN IF content.some THEN Ok(content.val) ELSE Ok("")

\* The part of call_openai_api that follows the body read: the result for
\* a given status and body text.
InterpretResponse(status, text) ==
    LET parsed == from_str(text) IN
    IF ~is_success(status)
    THEN IF parsed.ok /\ parsed.val.error.some
         THEN Fail(ApiErrorWithStatus(status, parsed.val.error.val))
         ELSE Fail(HttpError(status, text))
    ELSE IF ~parsed.ok THEN Fail(MalformedResponse(text))
    ELSE IF parsed.val.error.some THEN Fail(ApiErrorOnSuccess(parsed.val.error.val))
    ELSE IF Len(parsed.val.choices) = 0 THEN Fail(NoChoices)
    ELSE LET content == parsed.val.choices[1].message.content
         IN IF content.some THEN Ok(content.val) ELSE Ok("")

(* ------------------------ encode_image_to_base64 ----------------------- *)

\* An image buffer constructor that pads a short container with zero bytes
\* instead of refusing it.
from_raw_padding(width, height, buf) ==
    Some([width |-> width, height |-> height,
          data |-> [i \in 1..(IF Len(buf) < width * height * 4
                               THEN width * height * 4 ELSE Len(buf))
                      |-> IF i <= Len(buf) THEN buf[i] ELSE 0]])

\* ImageBuffer::from_raw(width, height, buf): Some(buffer) when the container
\* holds at least width * height * 4 bytes, None when it is too small.  (The
\* casts `as u32` leave every drawn dimension unchanged.)
from_raw(width, height, buf) ==
    IF width * height * 4 <= Len(buf)
    THEN Some([width |-> width, height |-> height, data |-> buf])
    ELSE None

\* The PNG written for an image buffer: its dimensions and its pixel rows,
\* which are the first width * height * 4 bytes of the container.
Png(buffer) ==
    [format |-> "png", width |-> buffer.width, height |-> buffer.height,
     pixels |-> SubSeq(buffer.data, 1, buffer.width * buffer.height * 4)]

\* format!("data:image/png;base64,{}", BASE64_STANDARD.encode(&png_bytes))
DataUri(png) == [prefix |-> "data:image/png;base64,", base64 |-> png]

(* ------------------------------ load_config ---------------------------- *)

\* Config files drawn: absent, unparseable, with the placeholder or an empty
\* token, and usable ones with and without the optional fields.
ConfigFiles ==
    {[exists |-> FALSE], [exists |-> TRUE, yaml |-> FALSE]}
    \cup {[exists |-> TRUE, yaml |-> TRUE, api_url |-> "https://api/v1",
           api_token |-> tok, model_name |-> None, max_tokens |-> None,
           request_timeout_seconds |-> None]
          : tok \in {"YOUR_API_TOKEN_HERE", "", "sk-1"}}
    \cup {[exists |-> TRUE, yaml |-> TRUE, api_url |-> "https://api/v1",
           api_token |-> "sk-1", model_name |-> Some("gpt-4o"),
           max_tokens |-> Some(256), request_timeout_seconds |-> Some(30)]}

OrElse(opt, d) == IF opt.some THEN opt ELSE Some(d)

\* load_config: Ok(config with defaults applied), or an error whose text is
\* one of the two "please edit" notices, or another error.
load_config(file) ==
    IF ~file.exists THEN Fail([kind |-> "ConfigCreated", notice |-> TRUE])
    ELSE IF ~file.yaml THEN Fail([kind |-> "ConfigParse", notice |-> FALSE])
    ELSE IF file.api_token = "YOUR_API_TOKEN_HERE" \/ file.api_token = ""
    THEN Fail([kind |-> "ConfigPlaceholder", notice |-> TRUE])
    ELSE Ok([api_url |-> file.api_url, api_token |-> file.api_token,
             model_name |-> OrElse(file.model_name, "gpt-4-vision-preview"),
             max_tokens |-> OrElse(file.max_tokens, 1024),
             request_timeout_seconds |-> OrElse(file.request_timeout_seconds, 60)])

(* ------------------------------- inputs -------------------------------- *)

ByteVals == {0, 255}

\* Buffer lengths drawn for a width x height image: empty, one byte, and
\* from one byte short of width * height * 4 up to MaxExtra bytes beyond it.
Lens(w, h) ==
    {n \in 0..(4 * w * h + MaxExtra) : n \in {0, 1} \/ n >= 4 * w * h - 1}

\* What clipboard.get_image() can hand back as Ok(image_data).
Images ==
    {[width |-> w, height |-> h, bytes |-> [i \in 1..n |-> b]]
        : <<w, h, n, b>> \in
            {q \in (0..MaxDim) \X (0..MaxDim) \X (0..(4 * MaxDim * MaxDim + MaxExtra))
                    \X ByteVals : q[3] \in Lens(q[1], q[2])}}

\* arboard errors other than ContentNotAvailable.
ClipboardErrors == {"ClipboardNotSupported", "ClipboardOccupied", "ConversionFailure"}

\* HTTP statuses drawn: both ends of the success range and three outside it.
Statuses == {200, 299, 300, 401, 503}

MessageOf(c) == JObj([k \in {"content"} |-> c])

ChoiceOf(c) == JObj([k \in {"message"} |-> MessageOf(c)])

ChoiceVals ==
    {ChoiceOf(JStr("HELLO")),
     JObj([message |-> MessageOf(JStr("WORLD")), finish_reason |-> JStr("stop")]),
     ChoiceOf(JNull)}

SeqsUpTo(S, n) == UNION {[1..k -> S] : k \in 0..n}

ChoicesVals ==
    {JArr(a) : a \in SeqsUpTo(ChoiceVals, MaxChoices)} \cup {JStr("none"), Missing}

BadKey == JObj([message |-> JStr("bad key"), type |-> JStr("invalid_request_error")])

ErrorVals == {Missing, BadKey, JStr("oops")}

GoodUsage ==
    JObj([prompt_tokens |-> JNum(7), completion_tokens |-> JNum(3),
          total_tokens |-> JNum(10)])

\* The JSON object with exactly the supplied members among choices, usage
\* and error.
Document(c, u, e) ==
    LET m(k) == IF k = "choices" THEN c ELSE IF k = "usage" THEN u ELSE e
    IN JObj([k \in {x \in {"choices", "usage", "error"} : m(x).t # "missing"} |-> m(k)])

HelloChoices == JArr(<<ChoiceOf(JStr("HELLO"))>>)

\* Response bodies drawn: JSON objects over the member values above, with
\* and without usage, with members of the wrong shape, documents in array
\* form, JSON that is no struct, and text that is not JSON.
Bodies ==
    {Document(c, Missing, e) : <<c, e>> \in ChoicesVals \X ErrorVals}
    \cup {Document(c, GoodUsage, e) : <<c, e>> \in {HelloChoices, JArr(<<>>), Missing} \X {Missing, BadKey}}
    \cup {Document(HelloChoices, JNull, JNull),
          Document(HelloChoices, JObj([k \in {"total_tokens"} |-> JNum(-1)]), Missing),
          Document(HelloChoices, Missing, JObj([k \in {"message"} |-> JStr("no type")])),
          Document(HelloChoices, Missing, JArr(<<JStr("bad key"), JStr("quota")>>)),
          Document(JArr(<<JObj(NoFields)>>), Missing, Missing),
          Document(JArr(<<ChoiceOf(JStr("HELLO")), JObj(NoFields)>>), Missing, Missing),
          Document(JArr(<<ChoiceOf(JNum(7))>>), Missing, Missing),
          JObj([choices |-> JArr(<<JObj([k \in {"message"} |-> JObj(NoFields)])>>),
                id |-> JStr("cmpl-1")]),
          JArr(<<>>), JArr(<<HelloChoices>>), JArr(<<HelloChoices, JNull, BadKey>>),
          JArr(<<HelloChoices, JNull, JNull, JNull>>),
          JStr("Service Unavailable"), JNull,
          NonJson("Service Unavailable"), NonJson("")}

(* --------------------------------- main -------------------------------- *)

VARIABLES
    pc,             \* the statement of main (or call_openai_api) reached
    cli,            \* Cli { markdown, config }
    config,         \* Config returned by load_config
    image,          \* image_data returned by clipboard.get_image()
    base64_image,   \* base64_image_data
    request,        \* request_payload and the headers it is posted with
    status,         \* response.status()
    response_text,  \* response.text()
    extracted_text, \* Some(text) once call_openai_api has returned Ok(text)
    stdout,         \* blocks written with println!
    stderr,         \* blocks written with eprintln!
    exit_code,      \* process exit code: 0 for Ok(()), 1 for Err, -1 while running
    outcome,        \* which return of main was taken
    failure,        \* the error main returned
    requests        \* number of times client.post(..).send() ran

vars ==
    <<pc, cli, config, image, base64_image, request, status, response_text,
      extracted_text, stdout, stderr, exit_code, outcome, failure, requests>>

Unset == [t |-> "unset"]


Init ==
    /\ pc = "load_config"
    /\ cli \in [markdown : BOOLEAN, config : BOOLEAN]
    /\ config = Unset
    /\ image = Unset
    /\ base64_image = Unset
    /\ request = Unset
    /\ status = 0
    /\ response_text = Unset
    /\ extracted_text = None
    /\ stdout = <<>>
    /\ stderr = <<>>
    /\ exit_code = -1
    /\ outcome = "none"
    /\ failure = Unset
    /\ requests = 0

\* main returns Ok(()): the process exits with code 0.
ReturnOk(o) ==
    /\ pc' = "done"
    /\ exit_code' = 0
    /\ outcome' = o
    /\ failure' = failure

\* main reporting the error itself and returning Ok(()): exit code 0.
ReturnErr_ExitZero(e) ==
    /\ pc' = "done"
    /\ exit_code' = 0
    /\ outcome' = "Failure"
    /\ failure' = e

\* main returns Err(e): the runtime prints the error to standard error and
\* the process exits with code 1.
ReturnErr(e) ==
    /\ pc' = "done"
    /\ exit_code' = 1
    /\ outcome' = "Failure"
    /\ failure' = e

\* Lines 344-369, configuration loaded.
LoadConfigOk ==
    /\ pc = "load_config"
    /\ \E file \in ConfigFiles :
          /\ cli.config => file.exists
          /\ load_config(file).ok
          /\ config' = load_config(file).val
    /\ pc' = "clipboard_init"
    /\ UNCHANGED <<cli, image, base64_image, request, status, response_text,
                   extracted_text, stdout, stderr, exit_code, outcome, failure,
                   requests>>

\* Lines 357-363, the "please edit" notices: printed to standard error, Ok(()).
LoadConfigNotice ==
    /\ pc = "load_config"
    /\ \E file \in ConfigFiles :
          /\ cli.config => file.exists
          /\ ~load_config(file).ok
          /\ load_config(file).err.notice
          /\ stderr' = Append(stderr, load_config(file).err.kind)
    /\ ReturnOk("ConfigNotice")
    /\ UNCHANGED <<cli, config, image, base64_image, request, status,
                   response_text, extracted_text, stdout, requests>>

\* Lines 345-347 and 364-367, a named config file that does not exist or a
\* file that cannot be loaded.
LoadConfigErr ==
    /\ pc = "load_config"
    /\ \E file \in ConfigFiles :
          \/ /\ cli.config /\ ~file.exists
             /\ ReturnErr([kind |-> "ConfigMissing"])
          \/ /\ cli.config => file.exists
             /\ ~load_config(file).ok
             /\ ~load_config(file).err.notice
             /\ ReturnErr(load_config(file).err)
    /\ UNCHANGED <<cli, config, image, base64_image, request, status,
                   response_text, extracted_text, stdout, stderr, requests>>

\* Lines 374-381, Clipboard::new() succeeds.
ClipboardInitOk ==
    /\ pc = "clipboard_init"
    /\ pc' = "get_image"
    /\ UNCHANGED <<cli, config, image, base64_image, request, status,
                   response_text, extracted_text, stdout, stderr, exit_code,
                   outcome, failure, requests>>

\* Lines 376-379, Clipboard::new() fails.
ClipboardInitErr ==
    /\ pc = "clipboard_init"
    /\ ReturnErr([kind |-> "ClipboardInit"])
    /\ UNCHANGED <<cli, config, image, base64_image, request, status,
                   response_text, extracted_text, stdout, stderr, requests>>

\* Lines 384-390, the clipboard holds an image.
GetImageOk ==
    /\ pc = "get_image"
    /\ image' \in Images
    /\ pc' = "check_empty"
    /\ UNCHANGED <<cli, config, base64_image, request, status, response_text,
                   extracted_text, stdout, stderr, exit_code, outcome, failure,
                   requests>>

\* Lines 415-419, Err(ContentNotAvailable).
GetImageNotAvailable ==
    /\ pc = "get_image"
    /\ ReturnOk("NoImagePresent")
    /\ UNCHANGED <<cli, config, image, base64_image, request, status,
                   response_text, extracted_text, stdout, stderr, requests>>

\* Lines 420-427, any other clipboard error.
GetImageErr ==
    /\ pc = "get_image"
    /\ \E e \in ClipboardErrors :
          /\ ReturnErr([kind |-> "ClipboardAccess", cause |-> e])
          /\ stderr' = IF e = "ClipboardNotSupported"
                       THEN Append(stderr, "Could not access the system clipboard")
                       ELSE stderr
    /\ UNCHANGED <<cli, config, image, base64_image, request, status,
                   response_text, extracted_text, stdout, requests>>

\* The emptiness check looking at the bytes only.
IsEmptyImage_BytesOnly(img) == Len(img.bytes) = 0

\* Line 393: width == 0 || height == 0 || bytes.is_empty()
IsEmptyImage(img) == img.width = 0 \/ img.height = 0 \/ Len(img.bytes) = 0

\* Lines 393-397, the image is empty: a notice on standard output, Ok(()).
EmptyImage ==
    /\ pc = "check_empty"
    /\ IsEmptyImage(image)
    /\ stdout' = Append(stdout, "Clipboard image data is empty. Nothing to process.")
    /\ ReturnOk("EmptyImage")
    /\ UNCHANGED <<cli, config, image, base64_image, request, status,
                   response_text, extracted_text, stderr, requests>>

\* Line 393, the image is not empty: on to encode_image_to_base64.
NonEmptyImage ==
    /\ pc = "check_empty"
    /\ ~IsEmptyImage(image)
    /\ pc' = "encode"
    /\ UNCHANGED <<cli, config, image, base64_image, request, status,
                   response_text, extracted_text, stdout, stderr, exit_code,
                   outcome, failure, requests>>

\* Lines 184-192 reached from line 401: the buffer is too small for the
\* dimensions, from_raw yields None and the error propagates out of main.
EncodeBufferErr ==
    /\ pc = "encode"
    /\ ~from_raw(image.width, image.height, image.bytes).some
    /\ ReturnErr([kind |-> "EncodingError", cause |-> "image buffer"])
    /\ UNCHANGED <<cli, config, image, base64_image, request, status,
                   response_text, extracted_text, stdout, stderr, requests>>

\* Lines 200-202: writing the PNG fails.
EncodePngErr ==
    /\ pc = "encode"
    /\ from_raw(image.width, image.height, image.bytes).some
    /\ ReturnErr([kind |-> "EncodingError", cause |-> "png"])
    /\ UNCHANGED <<cli, config, image, base64_image, request, status,
                   response_text, extracted_text, stdout, stderr, requests>>

\* Lines 184-208: the data URI of the PNG of the image buffer.
EncodeOk ==
    /\ pc = "encode"
    /\ from_raw(image.width, image.height, image.bytes).some
    /\ base64_image' = DataUri(Png(from_raw(image.width, image.height, image.bytes).val))
    /\ pc' = "build_request"
    /\ UNCHANGED <<cli, config, image, request, status, response_text,
                   extracted_text, stdout, stderr, exit_code, outcome, failure,
                   requests>>

\* Lines 227-231: the instruction prompt for the markdown flag.
prompt_text(generate_markdown) ==
    IF generate_markdown THEN "markdown prompt" ELSE "plain text prompt"

\* Lines 233-248 and 254-256: the payload and where and how it is posted.
request_payload(cfg, url, generate_markdown) ==
    [post |-> cfg.api_url,
     bearer_auth |-> cfg.api_token,
     timeout |-> cfg.request_timeout_seconds.val,
     model |-> cfg.model_name.val,
     messages |-> <<[role |-> "user",
                     content |-> <<[type |-> "text",
                                    text |-> prompt_text(generate_markdown)],
                                   [type |-> "image_url",
                                    image_url |-> [url |-> url, detail |-> "high"]]>>]>>,
     max_tokens |-> cfg.max_tokens.val]

\* Lines 216-221: the HTTP client cannot be built.
BuildClientErr ==
    /\ pc = "build_request"
    /\ ReturnErr([kind |-> "ClientBuild"])
    /\ UNCHANGED <<cli, config, image, base64_image, request, status,
                   response_text, extracted_text, stdout, stderr, requests>>

\* Lines 216-251: client and request payload are built.
BuildRequest ==
    /\ pc = "build_request"
    /\ request' = request_payload(config, base64_image, cli.markdown)
    /\ pc' = "send"
    /\ UNCHANGED <<cli, config, image, base64_image, status, response_text,
                   extracted_text, stdout, stderr, exit_code, outcome, failure,
                   requests>>

\* A failed send that is tried again instead of propagating.
SendErr_Retry ==
    /\ pc = "send"
    /\ requests < 2
    /\ requests' = requests + 1
    /\ UNCHANGED <<pc, cli, config, image, base64_image, request, status,
                   response_text, extracted_text, stdout, stderr, exit_code,
                   outcome, failure>>

\* Lines 253-259: the request is sent and fails (no connection, timeout).
SendErr ==
    /\ pc = "send"
    /\ requests' = requests + 1
    /\ ReturnErr([kind |-> "TransportError", cause |-> "send"])
    /\ UNCHANGED <<cli, config, image, base64_image, request, status,
                   response_text, extracted_text, stdout, stderr>>

\* Lines 253-262: the request is sent and response headers arrive.
SendOk ==
    /\ pc = "send"
    /\ requests' = requests + 1
    /\ status' \in Statuses
    /\ pc' = "read_body"
    /\ UNCHANGED <<cli, config, image, base64_image, request, response_text,
                   extracted_text, stdout, stderr, exit_code, outcome, failure>>

\* Lines 265-268: reading the body fails.
ReadBodyErr ==
    /\ pc = "read_body"
    /\ ReturnErr([kind |-> "TransportError", cause |-> "body"])
    /\ UNCHANGED <<cli, config, image, base64_image, request, status,
                   response_text, extracted_text, stdout, stderr, requests>>

\* Lines 265-268: the whole body is read as text.
ReadBodyOk ==
    /\ pc = "read_body"
    /\ response_text' \in Bodies
    /\ pc' = "interpret"
    /\ UNCHANGED <<cli, config, image, base64_image, request, status,
                   extracted_text, stdout, stderr, exit_code, outcome, failure,
                   requests>>

\* Lines 271-331 return Err, which line 409 propagates out of main.
InterpretErr ==
    /\ pc = "interpret"
    /\ ~InterpretResponse(status, response_text).ok
    /\ ReturnErr(InterpretResponse(status, response_text).err)
    /\ UNCHANGED <<cli, config, image, base64_image, request, status,
                   response_text, extracted_text, stdout, stderr, requests>>

\* Lines 311-324 return Ok(text) to line 407.
InterpretOk ==
    /\ pc = "interpret"
    /\ InterpretResponse(status, response_text).ok
    /\ extracted_text' = Some(InterpretResponse(status, response_text).val)
    /\ pc' = "print"
    /\ UNCHANGED <<cli, config, image, base64_image, request, status,
                   response_text, stdout, stderr, exit_code, outcome, failure,
                   requests>>

\* Printing a heading block before the text.
PrintText_WithHeading ==
    /\ pc = "print"
    /\ stdout' = stdout \o <<"Extracted text:", extracted_text.val>>
    /\ ReturnOk("Text")
    /\ UNCHANGED <<cli, config, image, base64_image, request, status,
                   response_text, extracted_text, stderr, requests>>

\* Lines 411-413: println!("{}", extracted_text); Ok(())
PrintText ==
    /\ pc = "print"
    /\ stdout' = Append(stdout, extracted_text.val)
    /\ ReturnOk("Text")
    /\ UNCHANGED <<cli, config, image, base64_image, request, status,
                   response_text, extracted_text, stderr, requests>>

Next ==
    \/ LoadConfigOk
    \/ LoadConfigNotice
    \/ LoadConfigErr
    \/ ClipboardInitOk
    \/ ClipboardInitErr
    \/ GetImageOk
    \/ GetImageNotAvailable
    \/ GetImageErr
    \/ EmptyImage
    \/ NonEmptyImage
    \/ EncodeBufferErr
    \/ EncodePngErr
    \/ EncodeOk
    \/ BuildClientErr
    \/ BuildRequest
    \/ SendErr
    \/ SendOk
    \/ ReadBodyErr
    \/ ReadBodyOk
    \/ InterpretErr
    \/ InterpretOk
    \/ PrintText

Spec == Init /\ [][Next]_vars

(* ------------------------------ properties ----------------------------- *)

\* call_openai_api has read a body and returned.
Interpreted == pc \in {"print", "done"} /\ response_text # Unset

\* main returned an error of the given kind.
FailedWith(k) == outcome = "Failure" /\ failure.kind = k

\* No text came out of the invocation.
NoText == extracted_text = None /\ stdout = <<>>

\* {"error":{"message":"bad key","type":"invalid_request_error"}}
ErrorOnlyBody == Document(Missing, Missing, BadKey)

\* C1: a 401 response whose body is only the embedded error record
\* {"error":{"message":"bad key","type":"invalid_request_error"}} fails with
\* ApiError carrying message "bad key" and kind "invalid_request_error",
\* not with HttpError carrying the raw body.
C1_ErrorOnlyBodyYieldsApiError ==
    (Interpreted /\ status = 401 /\ response_text = ErrorOnlyBody)
        => /\ FailedWith("ApiError")
           /\ failure.message = "bad key"
           /\ failure.error_type = "invalid_request_error"

\* What the code does with that response: the body does not deserialise
\* (no choices member), so the raw body comes back as HttpError.
C1_ErrorOnlyBodyYieldsHttpError ==
    (Interpreted /\ status = 401 /\ response_text = ErrorOnlyBody)
        => failure = [kind |-> "HttpError", status |-> 401, body |-> ErrorOnlyBody]

\* C2: a success status whose body parses and carries an embedded error
\* record fails with ApiError holding that record's message and kind, and
\* yields no text, whatever the choices are.
C2_EmbeddedErrorWinsOnSuccess ==
    (Interpreted /\ is_success(status) /\ from_str(response_text).ok
       /\ from_str(response_text).val.error.some)
        => /\ FailedWith("ApiError")
           /\ failure.message = from_str(response_text).val.error.val.message
           /\ failure.error_type = from_str(response_text).val.error.val.error_type
           /\ (response_text.t = "obj" /\ response_text.f["error"] = BadKey
                 => failure.message = "bad key"
                    /\ failure.error_type = "invalid_request_error")
           /\ NoText

C2_Witness ==
    /\ pc = "done"
    /\ status = 200
    /\ response_text = Document(HelloChoices, Missing, BadKey)
    /\ FailedWith("ApiError")

\* The clipboard handed back an image.
HasImage == image # Unset

\* Bytes the dimensions call for: width * height * 4.
Needed(img) == img.width * img.height * 4

\* The image was never turned into a PNG and nothing was sent.
NeverEncodedNorSent == base64_image = Unset /\ request = Unset /\ requests = 0

\* C3 as stated: an image with width > 0 and height > 0 whose buffer length
\* differs from width * height * 4 (shorter, longer or empty) ends in a
\* Failure outcome and is never encoded nor sent.
C3_AnyLengthMismatchFails ==
    (HasImage /\ image.width > 0 /\ image.height > 0
       /\ Len(image.bytes) # Needed(image))
        => /\ NeverEncodedNorSent
           /\ pc = "done" => outcome = "Failure"

\* C3 as the code has it: with width > 0 and height > 0, a non-empty buffer
\* shorter than width * height * 4 ends in a Failure outcome (the image
\* buffer cannot be built) and is never encoded nor sent; an empty buffer
\* ends in the EmptyImage outcome with exit code 0, also never encoded nor
\* sent.
C3_ShortBufferFailsEmptyBufferIsEmptyImage ==
    (HasImage /\ image.width > 0 /\ image.height > 0
       /\ Len(image.bytes) < Needed(image))
        => /\ NeverEncodedNorSent
           /\ pc \in {"check_empty", "encode", "done"}
           /\ (pc = "done" /\ Len(image.bytes) > 0)
                => FailedWith("EncodingError") /\ exit_code = 1 /\ stdout = <<>>
           /\ (pc = "done" /\ Len(image.bytes) = 0)
                => outcome = "EmptyImage" /\ exit_code = 0

C3_Witness ==
    /\ pc = "done"
    /\ HasImage
    /\ image.width = 2
    /\ image.height = 1
    /\ Len(image.bytes) = 7
    /\ FailedWith("EncodingError")

\* A buffer longer than width * height * 4 is accepted, encoded and sent.
C3_LongerBufferIsSent ==
    /\ HasImage
    /\ image.width > 0
    /\ image.height > 0
    /\ Len(image.bytes) > Needed(image)
    /\ requests = 1
    /\ outcome = "Text"

\* C4: an image with width = 0 or height = 0, whatever the length of its
\* buffer, ends in the EmptyImage outcome (exit code 0) with no encoding
\* attempt and no network request.
C4_ZeroDimensionIsEmptyImage ==
    (HasImage /\ (image.width = 0 \/ image.height = 0))
        => /\ NeverEncodedNorSent
           /\ pc \in {"check_empty", "done"}
           /\ pc = "done" => outcome = "EmptyImage" /\ exit_code = 0

C4_Witness ==
    /\ pc = "done"
    /\ HasImage
    /\ image.width = 0
    /\ image.height > 0
    /\ Len(image.bytes) > 0
    /\ outcome = "EmptyImage"

\* get_image has been called.
ClipboardRead ==
    \/ outcome \in {"Text", "NoImagePresent", "EmptyImage"}
    \/ /\ outcome = "Failure"
       /\ failure.kind \notin {"ConfigMissing", "ConfigParse", "ClipboardInit"}

\* The kinds of error main returns once the clipboard has been read.
PipelineFailures ==
    {"ClipboardAccess", "EncodingError", "ClientBuild", "TransportError",
     "HttpError", "ApiError", "MalformedResponse", "NoChoices"}

\* C5: once the clipboard has been read, the exit code is 0 exactly when
\* the outcome is Text, NoImagePresent or EmptyImage, and non-zero for every
\* Failure outcome.
C5_ExitCodeMatchesOutcome ==
    (pc = "done" /\ ClipboardRead)
        => /\ exit_code = 0 <=> outcome \in {"Text", "NoImagePresent", "EmptyImage"}
           /\ exit_code # 0 <=> outcome = "Failure"
           /\ outcome = "Failure" => failure.kind \in PipelineFailures
           /\ outcome # "Failure" => failure = Unset

C5_Witness == pc = "done" /\ FailedWith("NoChoices") /\ exit_code = 1

\* C6: an invocation that ends in Text has written exactly one block to
\* standard output, the extracted text (possibly empty); an invocation
\* that ends in Failure has written nothing to standard output.
C6_StdoutHoldsOnlyTheText ==
    pc = "done"
        => /\ outcome = "Text"
                => /\ extracted_text.some
                   /\ stdout = <<extracted_text.val>>
                   /\ InterpretResponse(status, response_text).ok
                   /\ extracted_text.val = InterpretResponse(status, response_text).val
           /\ outcome = "Failure" => stdout = <<>>

C6_Witness == pc = "done" /\ outcome = "Text" /\ stdout = <<"">>

\* C7: a non-success status whose body does not parse, or parses without
\* an embedded error record, fails with HttpError carrying that status and
\* the body text verbatim; no non-success status yields text.
C7_NonSuccessWithoutErrorIsHttpError ==
    (Interpreted /\ ~is_success(status))
        => /\ outcome = "Failure"
           /\ NoText
           /\ (~from_str(response_text).ok \/ ~from_str(response_text).val.error.some)
                => failure = [kind |-> "HttpError", status |-> status,
                              body |-> response_text]

C7_Witness ==
    /\ pc = "done"
    /\ status = 503
    /\ response_text = NonJson("Service Unavailable")
    /\ failure = [kind |-> "HttpError", status |-> 503,
                  body |-> NonJson("Service Unavailable")]

\* A non-success status with well-formed choices and no error record.
C7_WitnessChoices ==
    /\ pc = "done"
    /\ status = 401
    /\ response_text = Document(HelloChoices, Missing, Missing)
    /\ FailedWith("HttpError")

\* C8: a success status whose body cannot be parsed fails with
\* MalformedResponse carrying the raw body, and never yields text.
C8_UnparseableSuccessIsMalformed ==
    (Interpreted /\ is_success(status) /\ ~from_str(response_text).ok)
        => /\ failure = [kind |-> "MalformedResponse", body |-> response_text]
           /\ outcome = "Failure"
           /\ NoText

C8_Witness ==
    /\ pc = "done"
    /\ status = 200
    /\ response_text = NonJson("Service Unavailable")
    /\ FailedWith("MalformedResponse")

\* The text body of the first of some parsed choices, null read as "".
FirstText(choices) ==
    IF choices[1].message.content.some THEN choices[1].message.content.val ELSE ""

\* C9: for a success status whose body parses without an embedded error
\* record the choices alone decide: none fails with NoChoices, otherwise
\* the result is the text of the first choice, a null text being "".
C9_FirstChoiceDecides ==
    (Interpreted /\ is_success(status) /\ from_str(response_text).ok
       /\ ~from_str(response_text).val.error.some)
        => LET choices == from_str(response_text).val.choices IN
           /\ Len(choices) = 0 => FailedWith("NoChoices") /\ NoText
           /\ Len(choices) > 0
                => /\ extracted_text = Some(FirstText(choices))
                   /\ outcome # "Failure"
                   /\ pc = "done" => outcome = "Text" /\ stdout = <<FirstText(choices)>>

\* Two choices, the first with a null text: the result is "".
C9_Witness ==
    /\ pc = "done"
    /\ is_success(status)
    /\ response_text = Document(JArr(<<ChoiceOf(JNull), ChoiceOf(JStr("HELLO"))>>),
                                Missing, Missing)
    /\ outcome = "Text"
    /\ extracted_text = Some("")

\* Position of each statement of main in the pipeline: configuration,
\* clipboard read, emptiness check, encode, build request, transport
\* (send, read body), interpret, print, end.
Rank(p) ==
    CASE p = "load_config" -> 0
      [] p = "clipboard_init" -> 1
      [] p = "get_image" -> 2
      [] p = "check_empty" -> 3
      [] p = "encode" -> 4
      [] p = "build_request" -> 5
      [] p = "send" -> 6
      [] p = "read_body" -> 7
      [] p = "interpret" -> 8
      [] p = "print" -> 9
      [] p = "done" -> 10

\* One choice of flag, configuration and image.  What main can do once the
\* body has been read depends on pc, status and response_text only, so
\* whether it can go on from there is looked at for this choice.
PlainRun ==
    /\ ~cli.markdown
    /\ ~cli.config
    /\ config # Unset
    /\ config.max_tokens = Some(1024)
    /\ HasImage
    /\ image = [width |-> 1, height |-> 1, bytes |-> <<255, 255, 255, 255>>]

\* At most one request, sent only for an image that passed the emptiness
\* check and was encoded; an outcome exactly when main has returned; main
\* can always take a step until it has returned.
SinglePassState ==
    /\ requests <= 1
    /\ requests = 1
         => /\ HasImage
            /\ ~IsEmptyImage(image)
            /\ from_raw(image.width, image.height, image.bytes).some
            /\ base64_image # Unset
            /\ base64_image.base64.pixels = SubSeq(image.bytes, 1, Needed(image))
            /\ request # Unset
            /\ request.messages[1].content[2].image_url.url = base64_image
            /\ Rank(pc) >= 6
    /\ requests = 0 => status = 0 /\ response_text = Unset
    /\ pc = "done" <=> outcome # "none"
    /\ outcome \in {"none", "Text", "NoImagePresent", "EmptyImage", "Failure",
                     "ConfigNotice"}
    /\ (pc = "done" /\ config # Unset)
         => outcome \in {"Text", "NoImagePresent", "EmptyImage", "Failure"}
    /\ (pc # "done" /\ (Rank(pc) < 8 \/ PlainRun)) => ENABLED Next

\* Every step moves main forward: no statement is reached twice, nothing
\* follows the return, and a request once sent is not sent again.
SinglePassStep ==
    /\ Rank(pc') > Rank(pc)
    /\ outcome = "none"
    /\ requests' \in {requests, requests + 1}
    /\ requests' = requests + 1 <=> pc = "send"

\* C10: the stages run in the fixed order clipboard read, validate, encode,
\* build request, transport, interpret, each entered at most once; at most
\* one HTTP request is issued, only after the emptiness check and encoding
\* succeeded; the invocation ends in exactly one terminal outcome.
C10_SinglePass == []SinglePassState /\ [][SinglePassStep]_vars

C10_Witness ==
    /\ pc = "done"
    /\ requests = 1
    /\ FailedWith("TransportError")
    /\ failure.cause = "send"

====
